---- MODULE Spec2Model ----
(***************************************************************************)
(* A model of stepwise: the Stepper engine (src/src/Stepper.js, lines      *)
(* 1-313) and the StopClock timer it depends on (same file, lines 315-525).*)
(*                                                                         *)
(* JavaScript values are modelled as strings ("null", "undefined", "true", *)
(* "false", "0", "" and the messages of Error objects); truthiness is the  *)
(* operator Truthy.  User functions (the guard `proceed` and the work      *)
(* `step` of a Step) are modelled by name, their bodies by CallProceed and *)
(* CallStep.  Date.now() is the variable now.                              *)
(***************************************************************************)
EXTENDS Integers, Sequences, FiniteSets, TLC

VARIABLES
  OARGS,       \* this[OARGS]: the arguments given to the constructor
  BARGS,       \* this[BARGS]: the working copy handed to every step
  heap,        \* the object the arguments refer to: heap[ref] is its field x
  STEPS,       \* this[STEPS]: the registered steps
  SDATA,       \* this[SDATA]: the accumulated Datasets
  TTIME,       \* this[TTIME]: the run-level StopClock
  hasStepped,  \* this.hasStepped
  throwing,    \* the events that have a listener which throws
  now,         \* Date.now()
  pc,          \* "idle", or "loop" inside startSteppin's for loop
  idx,         \* position of the for..of iterator over this[STEPS]
  outcome,     \* how the last startSteppin ended: "none", "returned", "raised"
  result,      \* <<r>>: the Result the last startSteppin returned; <<>> if none
  nextId,      \* identity of the next object Stepper.Dataset allocates
  trace,       \* what the current (or last) run did, in order
  base,        \* Len(SDATA) when the current (or last) run began
  lastCall,    \* the call made before the current one
  runAfter,    \* lastCall when the current (or last) run began
  dropped,     \* number of Datasets the last reset() discarded
  calls,       \* number of calls made on the Stepper so far
  altContext,  \* the argument of the current (or last) startSteppin
  read,        \* <<r>>: what the results getter returned, if it was the last
               \* call made; <<>> otherwise
  runStart,    \* Date.now() when the current (or last) run began
  turns,       \* passes of the for loop begun since the last reset()
  clock,       \* a StopClock used on its own
  clockOp,     \* the last call on clock: "new", "stop", "reset"; "tick" once
               \* the time has moved on since
  ret,         \* value returned by the last stop() on clock
  labelArg,    \* argument of the last stop() on clock
  sum          \* sum of what the stop() calls on clock returned since it was
               \* created or last reset

vars == <<OARGS, BARGS, heap, STEPS, SDATA, TTIME, hasStepped, throwing, now,
          pc, idx, outcome, result, nextId, trace, base, lastCall, runAfter,
          dropped, calls, altContext, read, runStart, turns, clock, clockOp,
          ret, labelArg, sum>>

stepperVars == <<OARGS, BARGS, heap, STEPS, SDATA, TTIME, hasStepped, throwing,
                 pc, idx, outcome, result, nextId, trace, base, lastCall,
                 runAfter, dropped, calls, altContext, read, runStart, turns>>

clockVars == <<clock, clockOp, ret, labelArg, sum>>

(***************************************************************************)
(* Bounds.                                                                 *)
(***************************************************************************)
MaxInitSteps == 1
MaxSteps == 3
MaxCalls == 4
MaxNow == 2
MaxStops == 3

(***************************************************************************)
(* JavaScript values.                                                      *)
(***************************************************************************)
Falsy == {"false", "0", "", "null", "undefined"}

Truthy(v) == v \notin Falsy

\* a || b
Or(a, b) == IF Truthy(a) THEN a ELSE b

(***************************************************************************)
(* StopClock.  A stop is the Number object Object(Date.now()) with its     *)
(* label property: [t |-> the number, label |-> the label].                *)
(***************************************************************************)
StopClock == [start |-> now, stops |-> <<>>]

\* reset that moves the start and keeps the stops
StopClock_reset_keepsStops(c) == [start |-> now, stops |-> c.stops]

StopClock_reset(c) == [start |-> now, stops |-> <<>>]

StopClock_last(c) ==
  IF Len(c.stops) # 0 THEN c.stops[Len(c.stops)].t ELSE c.start

\* the value stop(label) returns
\* the value stop returns, measured from the start instead of the last stop
StopClock_stopTime_sinceStart(c) == now - c.start

StopClock_stopTime(c) == now - StopClock_last(c)

\* the clock after stop(label)
StopClock_stop(c, label) ==
  [c EXCEPT !.stops = Append(@, [t |-> now, label |-> Or(label, "null")])]

\* time read live, whether or not there are stops
StopClock_time_live(c) == now - c.start

StopClock_time(c) ==
  (IF Len(c.stops) # 0 THEN c.stops[Len(c.stops)].t ELSE now) - c.start

StopClock_timeSinceStart(c) == now - c.start

\* the field stop is <<t>> for the last stop, <<>> for Infinity
StopClock_summary(c) ==
  [start |-> c.start,
   stops |-> [i \in 1..Len(c.stops) |->
                [time  |-> c.stops[i].t,
                 delta |-> IF i = 1 THEN 0 ELSE c.stops[i].t - c.stops[i-1].t,
                 total |-> c.stops[i].t - c.start,
                 label |-> c.stops[i].label]],
   stop  |-> IF Len(c.stops) # 0 THEN <<c.stops[Len(c.stops)].t>> ELSE <<>>,
   total |-> StopClock_time(c),
   sinceStart |-> StopClock_timeSinceStart(c)]

\* findStop_callback without the test of the accumulator: a later stop with
\* the label replaces an earlier one
findStop_callback_last(c, label, p, s, i) ==
  IF Truthy(s.label) /\ s.label = label
  THEN <<[stop |-> s.t, start |-> c.start, label |-> s.label, index |-> i]>>
  ELSE p

\* lines 371-385: the function findStop hands to reduce; p is <<>> for null
\* and <<r>> for the object built from a stop, s is the stop at the
\* zero-based position i
findStop_callback(c, label, p, s, i) ==
  IF p # <<>>
  THEN p
  ELSE IF Truthy(s.label) /\ s.label = label
       THEN <<[stop |-> s.t, start |-> c.start, label |-> s.label,
               index |-> i]>>
       ELSE <<>>

\* this.stops.reduce(callback, null), from the stop at position k onwards
RECURSIVE findStop_reduce(_, _, _, _)
findStop_reduce(c, label, p, k) ==
  IF k > Len(c.stops)
  THEN p
  ELSE findStop_reduce(c, label,
                       findStop_callback(c, label, p, c.stops[k], k - 1),
                       k + 1)

StopClock_findStop(c, label) == findStop_reduce(c, label, <<>>, 1)

(***************************************************************************)
(* Steps.                                                                  *)
(***************************************************************************)
\* Object.assign(t, s)
Assign(t, s) ==
  [k \in DOMAIN t \cup DOMAIN s |-> IF k \in DOMAIN s THEN s[k] ELSE t[k]]

RECURSIVE AssignAll(_, _)
AssignAll(t, ss) ==
  IF ss = <<>> THEN t ELSE AssignAll(Assign(t, Head(ss)), Tail(ss))

\* Stepper.Step(name, stepFunction, ...stepData)
Step(name, stepFunction, stepData) ==
  AssignAll([name    |-> name,
             proceed |-> "alwaysTrue",
             step    |-> Or(stepFunction, "noOpStep")],
            stepData)

\* Stepper.Dataset(step)
Dataset(step) ==
  [id |-> nextId, stopclock |-> StopClock, error |-> "null", step |-> step]

(***************************************************************************)
(* The user's functions.  Each receives the bound arguments (references    *)
(* into heap) and returns [threw, value, heap]: whether it threw, the      *)
(* value returned or thrown, and the heap it leaves behind.                *)
(***************************************************************************)
Returns(v, h) == [threw |-> FALSE, value |-> v, heap |-> h]

Throws(v, h) == [threw |-> TRUE, value |-> v, heap |-> h]

\* step.proceed.apply(owner, args)
CallProceed(fn, args, h) ==
  CASE fn = "alwaysTrue" -> Returns("true", h)
    [] fn = "xPositive"  -> Returns(IF h[args[1]] > 0 THEN "true" ELSE "false", h)
    [] fn = "countThenThrow" ->
         Throws("Error: GUARD", [h EXCEPT ![args[1]] = @ + 1])

\* step.step.bind(owner, ...args)()
CallStep(fn, args, h) ==
  CASE fn = "noOpStep"           -> Returns("undefined", h)
    [] fn = "setOne"             -> Returns("undefined", [h EXCEPT ![args[1]] = 1])
    [] fn = "increment"          -> Returns("undefined", [h EXCEPT ![args[1]] = @ + 1])
    [] fn = "incrementThenThrow" -> Throws("Error: NO NO NO!", [h EXCEPT ![args[1]] = @ + 1])
    [] fn = "throwZero"          -> Throws("0", h)

\* the steps a caller registers
Pool ==
  { Step("A", "setOne", <<>>),
    Step("B", "increment", <<[proceed |-> "xPositive"]>>),
    Step("E", "incrementThenThrow", <<>>),
    Step("G", "increment", <<[proceed |-> "countThenThrow"]>>),
    Step("Z", "throwZero", <<>>),
    Step("N", "undefined", <<>>) }

RECURSIVE SeqsUpTo(_, _)
SeqsUpTo(S, n) ==
  IF n = 0 THEN {<<>>}
  ELSE LET shorter == SeqsUpTo(S, n - 1)
       IN  shorter \cup {Append(q, e) : q \in shorter, e \in S}

Events == {"Step started", "Step completed", "Step Failed"}

\* what a throwing listener throws
ListenerError == "Error: listener"

\* this.emit(event, ...): the listeners run synchronously inside emit, and
\* what a listener throws comes out of emit
EmitThrows(event) == event \in throwing

(***************************************************************************)
(* One entry of trace.                                                     *)
(***************************************************************************)
\* line 111: step.step.bind(altContext || step, ...); a Step is named by
\* its name
StepOwner(step) == Or(altContext, step.name)

\* the guard applied to the step whatever altContext is
ProceedOwner_step(step) == step.name

\* line 117: step.proceed.apply(altContext || step, ...)
ProceedOwner(step) == Or(altContext, step.name)

\* an entry records the time, and the receiver and the arguments of the call
\* it is about
Entry(op, i, step, ds, err, h) ==
  [op |-> op, i |-> i, step |-> step.name, ds |-> ds.id, err |-> err,
   x |-> h["given"], at |-> now,
   owner |-> CASE op = "guard" -> ProceedOwner(step)
               [] op = "work" -> StepOwner(step)
               [] OTHER -> "undefined",
   args |-> IF op \in {"guard", "work"} THEN BARGS ELSE <<>>]

\* Work with the step run on a copy of the context, which is thrown away
Work_onCopy(step, doIt, h) ==
  IF Truthy(doIt)
  THEN LET r == CallStep(step.step, BARGS, h)
       IN  [called |-> TRUE, threw |-> r.threw, value |-> r.value, heap |-> h]
  ELSE [called |-> FALSE, threw |-> FALSE, value |-> "undefined", heap |-> h]

\* Work with the guard's answer ignored
Work_ignoresGuard(step, doIt, h) ==
  LET r == CallStep(step.step, BARGS, h)
  IN  [called |-> TRUE, threw |-> r.threw, value |-> r.value, heap |-> r.heap]

\* startSteppin, lines 119-121: if (doIt) { boundedStep() }
Work(step, doIt, h) ==
  IF Truthy(doIt)
  THEN LET r == CallStep(step.step, BARGS, h)
       IN  [called |-> TRUE, threw |-> r.threw, value |-> r.value, heap |-> r.heap]
  ELSE [called |-> FALSE, threw |-> FALSE, value |-> "undefined", heap |-> h]

\* SDATA_push with the list replaced by the new Dataset alone
SDATA_replace(sdata, stepData) == <<stepData>>

\* SDATA_push with unshift in the place of push
SDATA_unshift(sdata, stepData) == <<stepData>> \o sdata

\* this[SDATA].push(stepData)
SDATA_push(sdata, stepData) == Append(sdata, stepData)

(***************************************************************************)
(* startSteppin, the body of the try block for the step at position i.     *)
(* Returns [ok, error, ds, heap, log]: whether the block ran to its end,   *)
(* what was thrown otherwise, the Dataset, the heap and the trace.         *)
(***************************************************************************)
TryBlock(step, ds, i, h) ==
  LET started == <<Entry("started", i, step, ds, "null", h)>>
  IN
  IF EmitThrows("Step started")
  THEN [ok |-> FALSE, error |-> ListenerError, ds |-> ds, heap |-> h,
        log |-> started]
  ELSE
  LET d1 == [ds EXCEPT !.stopclock = StopClock_reset(@)]
      g  == CallProceed(step.proceed, BARGS, h)
      l1 == started \o <<Entry("guard", i, step, ds, "null", h)>>
  IN
  IF g.threw
  THEN [ok |-> FALSE, error |-> g.value, ds |-> d1, heap |-> g.heap, log |-> l1]
  ELSE
  LET d2 == [d1 EXCEPT !.stopclock = StopClock_stop(@, "undefined")]
      doIt == g.value
      w  == Work(step, doIt, g.heap)
      l2 == IF w.called
            THEN l1 \o <<Entry("work", i, step, ds, "null", g.heap)>>
            ELSE l1
  IN
  IF w.threw
  THEN [ok |-> FALSE, error |-> w.value, ds |-> d2, heap |-> w.heap, log |-> l2]
  ELSE
  LET d3 == [d2 EXCEPT !.stopclock = StopClock_stop(@, "undefined")]
      l3 == l2 \o <<Entry("completed", i, step, ds, "null", w.heap)>>
  IN
  IF EmitThrows("Step completed")
  THEN [ok |-> FALSE, error |-> ListenerError, ds |-> d3, heap |-> w.heap,
        log |-> l3]
  ELSE [ok |-> TRUE, error |-> "null", ds |-> d3, heap |-> w.heap,
        log |-> l3 \o <<Entry("push", i, step, ds, "null", w.heap)>>]

\* CatchBlock without the stop of the step's clock
CatchBlock_noStop(step, t, i) ==
  LET d == [t.ds EXCEPT !.error = t.error]
      l == t.log \o <<Entry("failed", i, step, d, t.error, t.heap)>>
  IN
  IF EmitThrows("Step Failed")
  THEN [raised |-> TRUE, ds |-> d, log |-> l]
  ELSE [raised |-> FALSE, ds |-> d,
        log |-> l \o <<Entry("push", i, step, d, t.error, t.heap)>>]

\* CatchBlock without the 'Step Failed' event
CatchBlock_silent(step, t, i) ==
  LET d == [t.ds EXCEPT !.stopclock = StopClock_stop(@, "undefined"),
                        !.error = t.error]
  IN  [raised |-> FALSE, ds |-> d,
       log |-> t.log \o <<Entry("push", i, step, d, t.error, t.heap)>>]

\* CatchBlock with the error thrown again at the end of the catch block
CatchBlock_rethrows(step, t, i) ==
  [raised |-> TRUE,
   ds |-> [t.ds EXCEPT !.error = t.error],
   log |-> t.log \o <<Entry("failed", i, step, t.ds, t.error, t.heap)>>]

(***************************************************************************)
(* startSteppin, the catch block, entered with the outcome t of the try    *)
(* block.  Returns [raised, ds, log]: whether the block itself threw, and  *)
(* the Dataset and trace it leaves.                                        *)
(***************************************************************************)
CatchBlock(step, t, i) ==
  LET d == [t.ds EXCEPT !.stopclock = StopClock_stop(@, "undefined"),
                        !.error = t.error]
      l == t.log \o <<Entry("failed", i, step, d, t.error, t.heap)>>
  IN
  IF EmitThrows("Step Failed")
  THEN [raised |-> TRUE, ds |-> d, log |-> l]
  ELSE [raised |-> FALSE, ds |-> d,
        log |-> l \o <<Entry("push", i, step, d, t.error, t.heap)>>]

(***************************************************************************)
(* The results getter.                                                     *)
(***************************************************************************)
\* hasErrors with the test c.error !== undefined in the place of c.error
hasErrors_notUndefined(sdata) ==
  \E k \in 1..Len(sdata) : sdata[k].error # "undefined"

RECURSIVE hasErrors(_)
hasErrors(sdata) ==
  IF sdata = <<>> THEN FALSE
  ELSE LET p == hasErrors(SubSeq(sdata, 1, Len(sdata) - 1))
           c == sdata[Len(sdata)]
       IN  IF p THEN TRUE ELSE IF Truthy(c.error) THEN TRUE ELSE FALSE

\* errors without the test of c: the error field of every Dataset
errors_all(sdata) == [k \in 1..Len(sdata) |-> sdata[k].error]

RECURSIVE errors(_)
errors(sdata) ==
  IF sdata = <<>> THEN <<>>
  ELSE LET p == errors(SubSeq(sdata, 1, Len(sdata) - 1))
           c == sdata[Len(sdata)].error
       IN  IF Truthy(c) THEN p \o <<c>> ELSE p

Results(stepped, ttime, sdata) ==
  [stepped   |-> stepped,
   timing    |-> StopClock_summary(ttime),
   totalTime |-> StopClock_time(ttime),
   hasErrors |-> hasErrors(sdata),
   errors    |-> errors(sdata),
   data      |-> sdata]

results == Results(hasStepped, TTIME, SDATA)

(***************************************************************************)
(* The constructor.                                                        *)
(***************************************************************************)
\* lines 53-60: null or undefined becomes [], any other value is wrapped
ConstructorArgs(stepArgs) ==
  IF stepArgs \in {"null", "undefined"} THEN <<>> ELSE <<stepArgs>>

\* new Stepper(stepArgs, ...steps)
Constructor(stepArgs, steps) ==
  /\ OARGS = ConstructorArgs(stepArgs)
  /\ BARGS = <<>> \o ConstructorArgs(stepArgs)
  /\ SDATA = <<>>
  /\ STEPS = <<>> \o steps
  /\ TTIME = StopClock
  /\ hasStepped = FALSE

InitCommon ==
  /\ heap = [r \in {"given"} |-> 0]
  /\ pc = "idle"
  /\ idx = 0
  /\ outcome = "none"
  /\ result = <<>>
  /\ nextId = 1
  /\ trace = <<>>
  /\ base = 0
  /\ lastCall = "new"
  /\ runAfter = "new"
  /\ dropped = 0
  /\ calls = 0
  /\ altContext = "undefined"
  /\ read = <<>>
  /\ runStart = 0
  /\ turns = 0
  /\ clock = StopClock
  /\ clockOp = "new"
  /\ ret = 0
  /\ labelArg = "undefined"
  /\ sum = 0

\* a Stepper whose listeners, if any, do not throw
Init ==
  /\ now = 0
  /\ throwing = {}
  /\ \E steps \in SeqsUpTo(Pool, MaxInitSteps) : Constructor("given", steps)
  /\ InitCommon

\* a Stepper with any listeners
InitListeners ==
  /\ now = 0
  /\ throwing \in SUBSET Events
  /\ \E steps \in SeqsUpTo(Pool, MaxInitSteps) : Constructor("given", steps)
  /\ InitCommon

(***************************************************************************)
(* The operations of the Stepper.                                          *)
(***************************************************************************)
Idle == pc = "idle" /\ calls < MaxCalls

Called(name) ==
  /\ lastCall' = name
  /\ calls' = calls + 1

\* stepper.steps.push(step)
Push(step) ==
  /\ Idle
  /\ Len(STEPS) < MaxSteps
  /\ STEPS' = Append(STEPS, step)
  /\ Called("push")
  /\ read' = <<>>
  /\ UNCHANGED <<OARGS, BARGS, heap, SDATA, TTIME, hasStepped, throwing, now,
                 pc, idx, outcome, result, nextId, trace, base, runAfter,
                 dropped, altContext, runStart, turns, clockVars>>

\* stepper.steps.splice(i - 1, 1)
Splice(i) ==
  /\ Idle
  /\ i \in 1..Len(STEPS)
  /\ STEPS' = SubSeq(STEPS, 1, i - 1) \o SubSeq(STEPS, i + 1, Len(STEPS))
  /\ Called("splice")
  /\ read' = <<>>
  /\ UNCHANGED <<OARGS, BARGS, heap, SDATA, TTIME, hasStepped, throwing, now,
                 pc, idx, outcome, result, nextId, trace, base, runAfter,
                 dropped, altContext, runStart, turns, clockVars>>

\* reset with a new, empty step list
reset_dropsSteps ==
  /\ hasStepped' = FALSE
  /\ BARGS' = <<>> \o OARGS
  /\ SDATA' = <<>>
  /\ STEPS' = <<>>
  /\ UNCHANGED <<OARGS, TTIME>>

\* reset with the accumulated Datasets kept
reset_keepsData ==
  /\ hasStepped' = FALSE
  /\ BARGS' = <<>> \o OARGS
  /\ SDATA' = SDATA
  /\ UNCHANGED <<OARGS, STEPS, TTIME>>

\* reset()
reset ==
  /\ hasStepped' = FALSE
  /\ BARGS' = <<>> \o OARGS
  /\ SDATA' = <<>>
  /\ UNCHANGED <<OARGS, STEPS, TTIME>>

Reset ==
  /\ Idle
  /\ reset
  /\ dropped' = Len(SDATA)
  /\ Called("reset")
  /\ turns' = 0
  /\ read' = <<>>
  /\ UNCHANGED <<heap, throwing, now, pc, idx, outcome, result, nextId, trace,
                 base, runAfter, altContext, runStart, clockVars>>

\* startSteppin(altContext), up to the for loop: lines 106-109
StartSteppinWith(owner) ==
  /\ Idle
  /\ altContext' = owner
  /\ runStart' = now
  /\ read' = <<>>
  /\ TTIME' = StopClock_reset(TTIME)
  /\ pc' = "loop"
  /\ idx' = 1
  /\ outcome' = "none"
  /\ result' = <<>>
  /\ trace' = <<>>
  /\ base' = Len(SDATA)
  /\ runAfter' = lastCall
  /\ calls' = calls + 1
  /\ UNCHANGED <<OARGS, BARGS, heap, STEPS, SDATA, hasStepped, throwing, now,
                 nextId, lastCall, dropped, turns, clockVars>>

\* startSteppin()
StartSteppin == StartSteppinWith("undefined")

\* start(altContext), lines 91-94: return this.startSteppin(altContext)
start(owner) == StartSteppinWith(owner)

\* startSteppin(), one pass of the for loop: lines 110-133
StepTurn ==
  /\ pc = "loop"
  /\ idx <= Len(STEPS)
  /\ LET step == STEPS[idx]
         stepData == Dataset(step)
         t == TryBlock(step, stepData, idx, heap)
     IN  /\ heap' = t.heap
         /\ nextId' = nextId + 1
         /\ turns' = turns + 1
         /\ IF t.ok
            THEN /\ SDATA' = SDATA_push(SDATA, t.ds)
                 /\ trace' = trace \o t.log \o
                             <<Entry("ttstop", idx, step, t.ds, "null", t.heap)>>
                 /\ TTIME' = StopClock_stop(TTIME, "undefined")
                 /\ idx' = idx + 1
                 /\ UNCHANGED <<pc, outcome, lastCall>>
            ELSE LET c == CatchBlock(step, t, idx)
                 IN  IF c.raised
                     THEN /\ trace' = trace \o c.log
                          /\ pc' = "idle"
                          /\ outcome' = "raised"
                          /\ lastCall' = "run"
                          /\ UNCHANGED <<SDATA, TTIME, idx>>
                     ELSE /\ SDATA' = SDATA_push(SDATA, c.ds)
                          /\ trace' = trace \o c.log \o
                                <<Entry("ttstop", idx, step, c.ds, t.error, t.heap)>>
                          /\ TTIME' = StopClock_stop(TTIME, "undefined")
                          /\ idx' = idx + 1
                          /\ UNCHANGED <<pc, outcome, lastCall>>
  /\ UNCHANGED <<OARGS, BARGS, STEPS, hasStepped, throwing, now, result, base,
                 runAfter, dropped, calls, altContext, read, runStart,
                 clockVars>>

\* startSteppin(), after the for loop: lines 136-140
Return ==
  /\ pc = "loop"
  /\ idx > Len(STEPS)
  /\ TTIME' = StopClock_stop(TTIME, "undefined")
  /\ hasStepped' = TRUE
  /\ result' = <<Results(TRUE, TTIME', SDATA)>>
  /\ pc' = "idle"
  /\ outcome' = "returned"
  /\ lastCall' = "run"
  /\ UNCHANGED <<OARGS, BARGS, heap, STEPS, SDATA, throwing, now, idx, nextId,
                 trace, base, runAfter, dropped, calls, altContext, read,
                 runStart, turns, clockVars>>

\* a results getter that marks the Stepper as stepped when it is read
ResultsRead_marksStepped ==
  /\ pc = "idle"
  /\ read' = <<results>>
  /\ hasStepped' = TRUE
  /\ UNCHANGED <<OARGS, BARGS, heap, STEPS, SDATA, TTIME, throwing, now, pc,
                 idx, outcome, result, nextId, trace, base, lastCall, runAfter,
                 dropped, calls, altContext, runStart, turns, clockVars>>

\* stepper.results, read between two calls: lines 150-165 assign nothing
ResultsRead ==
  /\ pc = "idle"
  /\ read' = <<results>>
  /\ UNCHANGED <<OARGS, BARGS, heap, STEPS, SDATA, TTIME, hasStepped, throwing,
                 now, pc, idx, outcome, result, nextId, trace, base, lastCall,
                 runAfter, dropped, calls, altContext, runStart, turns,
                 clockVars>>

Next ==
  \/ \E step \in Pool : Push(step)
  \/ \E i \in 1..MaxSteps : Splice(i)
  \/ Reset
  \/ StartSteppin
  \/ StepTurn
  \/ Return

Spec == Init /\ [][Next]_vars

SpecListeners == InitListeners /\ [][Next]_vars

\* a Stepper whose list only grows: pushes, runs and resets
NextRuns ==
  \/ \E step \in Pool : Push(step)
  \/ Reset
  \/ StartSteppin
  \/ StepTurn
  \/ Return

SpecRuns == Init /\ [][NextRuns]_vars

\* Date.now() moves on while a run is in progress
Advance ==
  /\ pc = "loop"
  /\ now < MaxNow
  /\ now' = now + 1
  /\ UNCHANGED <<stepperVars, clockVars>>

\* a step that completes, one whose guard throws, one whose work throws
TimedPool == {st \in Pool : st.name \in {"A", "G", "E"}}

InitTimed ==
  /\ now = 0
  /\ throwing = {}
  /\ \E steps \in SeqsUpTo(TimedPool, MaxInitSteps + 1) :
        Constructor("given", steps)
  /\ InitCommon

\* runs of a Stepper that take time
NextTimed ==
  \/ StartSteppin
  \/ StepTurn
  \/ Return
  \/ Advance

SpecTimed == InitTimed /\ [][NextTimed]_vars

\* what a caller passes to start: nothing, an object, the number 0
Owners == {"undefined", "owner", "0"}

\* runs started with any owner
NextOwner ==
  \/ \E o \in Owners : start(o)
  \/ StepTurn
  \/ Return

SpecOwner == Init /\ [][NextOwner]_vars

\* the Stepper with its results read at any time between two calls
NextRead == Next \/ ResultsRead

SpecRead == Init /\ [][NextRead]_vars

(***************************************************************************)
(* A StopClock used on its own, under a wall clock that may read anything. *)
(***************************************************************************)
Labels == {"undefined", "", "Sample Label", "Other"}

InitClock ==
  /\ now \in 0..MaxNow
  /\ throwing = {}
  /\ Constructor("given", <<>>)
  /\ InitCommon

\* Date.now() reads another value
Tick ==
  /\ \E t \in 0..MaxNow : t # now /\ now' = t
  /\ clockOp' = "tick"
  /\ UNCHANGED <<stepperVars, clock, ret, labelArg, sum>>

\* clock.stop(l)
ClockStop(l) ==
  /\ Len(clock.stops) < MaxStops
  /\ ret' = StopClock_stopTime(clock)
  /\ clock' = StopClock_stop(clock, l)
  /\ labelArg' = l
  /\ sum' = sum + ret'
  /\ clockOp' = "stop"
  /\ UNCHANGED <<stepperVars, now>>

\* clock.reset()
ClockReset ==
  /\ clock' = StopClock_reset(clock)
  /\ clockOp' = "reset"
  /\ sum' = 0
  /\ UNCHANGED <<stepperVars, now, ret, labelArg>>

NextClock ==
  \/ Tick
  \/ \E l \in Labels : ClockStop(l)
  \/ ClockReset

SpecClock == InitClock /\ [][NextClock]_vars

\* a StopClock stopped without labels
NextStops ==
  \/ Tick
  \/ ClockStop("undefined")
  \/ ClockReset

SpecStops == InitClock /\ [][NextStops]_vars

(***************************************************************************)
(* What the claims speak of.                                               *)
(***************************************************************************)
\* startSteppin has just returned its Result
RunReturned == pc = "idle" /\ lastCall = "run" /\ outcome = "returned"

\* the positions whose turn to look at: inside the loop the one whose turn
\* has just ended, and all of them once the run has returned
Turns ==
  IF pc = "loop" THEN {idx - 1} \ {0}
  ELSE IF RunReturned THEN 1..Len(STEPS) ELSE {}

\* the positions in trace where the step at position i of the list did op
At(op, i) == {k \in 1..Len(trace) : trace[k].op = op /\ trace[k].i = i}

HeapAt(e) == [r \in {"given"} |-> e.x]

\* what the guard, or the work, invoked at trace entry e did
GuardResult(e) == CallProceed(STEPS[e.i].proceed, BARGS, HeapAt(e))

WorkResult(e) == CallStep(STEPS[e.i].step, BARGS, HeapAt(e))

\* the step at position i failed: its guard threw, or its guard was truthy
\* and its work threw
Failed(i) ==
  \/ \E k \in At("guard", i) : GuardResult(trace[k]).threw
  \/ \E k \in At("work", i) : WorkResult(trace[k]).threw

\* the values thrown in the current run, in order
Thrown ==
  LET f == SelectSeq(trace, LAMBDA e : e.op = "failed")
  IN  [k \in 1..Len(f) |-> f[k].err]

\* the Datasets of the current run
ThisRun == SubSeq(SDATA, base + 1, Len(SDATA))

(***************************************************************************)
(* C1.  Error isolation: whichever guards and work functions throw,        *)
(* startSteppin never raises and returns a Result, and every registered    *)
(* step gets its turn: its guard is evaluated once, and its work is        *)
(* invoked once when the guard is truthy, also after a step that failed.   *)
(***************************************************************************)
C1_ErrorIsolation ==
  /\ outcome # "raised"
  /\ RunReturned => Len(result) = 1
  /\ \A i \in Turns :
       /\ Cardinality(At("guard", i)) = 1
       /\ \A k \in At("guard", i) :
            LET g == GuardResult(trace[k])
            IN  (~g.threw /\ Truthy(g.value)) => Cardinality(At("work", i)) = 1

\* a run has returned in which a step failed and the work of a later step ran
C1_Witness ==
  /\ RunReturned
  /\ \E i, j \in 1..Len(STEPS) : i < j /\ Failed(i) /\ At("work", j) # {}

(***************************************************************************)
(* C2.  If a guard or work throws in a run, whatever the value thrown, the *)
(* Result has hasErrors = true and errors is exactly the values thrown by  *)
(* the failing steps, one per failing step, in step order.  Stated for a   *)
(* run that began with no Datasets accumulated.                            *)
(***************************************************************************)
C2_ErrorsAreTheThrownValues ==
  (RunReturned /\ base = 0) =>
     /\ (Thrown # <<>>) => result[1].hasErrors
     /\ result[1].errors = Thrown

(***************************************************************************)
(* C4.  A step whose guard returns a falsy value never has its work        *)
(* invoked in that run, and the run appends exactly one Dataset for it,    *)
(* with error null, so the step is counted in data and does not set        *)
(* hasErrors.                                                              *)
(***************************************************************************)
GuardFalsy(i) ==
  \E k \in At("guard", i) :
    LET g == GuardResult(trace[k]) IN ~g.threw /\ ~Truthy(g.value)

C4_FalsyGuardSkipsWork ==
  \A i \in Turns :
    GuardFalsy(i) =>
      /\ At("work", i) = {}
      /\ Cardinality(At("push", i)) = 1
      /\ Len(SDATA) >= base + i
      /\ SDATA[base + i].step = STEPS[i]
      /\ SDATA[base + i].error = "null"
      /\ \A k \in At("push", i) : trace[k].ds = SDATA[base + i].id
      /\ ~hasErrors(<<SDATA[base + i]>>)
      /\ errors(<<SDATA[base + i]>>) = <<>>

\* a run has returned in which the guard of some step was falsy
C4_Witness ==
  /\ RunReturned
  /\ \E i \in 1..Len(STEPS) : GuardFalsy(i)

(***************************************************************************)
(* C3.  As claimed: with N registered steps that all use the default guard *)
(* and whose work never throws, every call to run returns a Result with    *)
(* data.length = N and hasErrors = false, the i-th Dataset referring to    *)
(* the i-th step, data holding the Datasets of that run only.              *)
(***************************************************************************)
WorkNeverThrows(fn) ==
  \A x \in 0..(MaxCalls * MaxSteps) :
    ~CallStep(fn, <<"given">>, [r \in {"given"} |-> x]).threw

AllDefault ==
  \A i \in 1..Len(STEPS) :
    STEPS[i].proceed = "alwaysTrue" /\ WorkNeverThrows(STEPS[i].step)

C3_EveryRunHoldsItsOwnData ==
  (RunReturned /\ AllDefault /\ Len(STEPS) >= 1) =>
     /\ Len(result[1].data) = Len(STEPS)
     /\ ~result[1].hasErrors
     /\ \A i \in 1..Len(STEPS) : result[1].data[i].step = STEPS[i]

(***************************************************************************)
(* C3, amended.  Such a run appends N Datasets, without error and in step  *)
(* order, to those accumulated since the last reset: data.length = N and   *)
(* hasErrors = false are returned by a run that began with no Datasets     *)
(* accumulated (the first after construction or reset).                    *)
(***************************************************************************)
C3_RunAppendsItsData ==
  (RunReturned /\ AllDefault) =>
     /\ result[1].data = SDATA
     /\ Len(result[1].data) = base + Len(STEPS)
     /\ \A i \in 1..Len(STEPS) :
          /\ result[1].data[base + i].step = STEPS[i]
          /\ result[1].data[base + i].error = "null"
     /\ base = 0 => ~result[1].hasErrors

\* a second run over two such steps has returned
C3_Witness ==
  /\ RunReturned
  /\ AllDefault
  /\ Len(STEPS) >= 2
  /\ base > 0

(***************************************************************************)
(* C5.  After reset() hasStepped is false and no Dataset is accumulated;   *)
(* a run that follows a reset returns data with exactly one Dataset per    *)
(* registered step, in order, and its errors are among the values thrown   *)
(* in this run, in order.                                                  *)
(***************************************************************************)
RECURSIVE IsSubSeq(_, _)
IsSubSeq(a, b) ==
  IF a = <<>> THEN TRUE
  ELSE IF b = <<>> THEN FALSE
  ELSE IF Head(a) = Head(b) THEN IsSubSeq(Tail(a), Tail(b))
  ELSE IsSubSeq(a, Tail(b))

C5_ResetThenRun ==
  /\ (pc = "idle" /\ lastCall = "reset") =>
        /\ ~hasStepped
        /\ SDATA = <<>>
        /\ ~results.stepped
        /\ results.data = <<>>
  /\ (RunReturned /\ runAfter = "reset") =>
        /\ Len(result[1].data) = Len(STEPS)
        /\ \A i \in 1..Len(STEPS) : result[1].data[i].step = STEPS[i]
        /\ \A i, j \in 1..Len(STEPS) :
             i # j => result[1].data[i].id # result[1].data[j].id
        /\ IsSubSeq(result[1].errors, Thrown)

\* a run over one step, a step appended, reset(), and a run over the two
\* steps, both of which fail, has returned
C5_Witness ==
  /\ RunReturned
  /\ runAfter = "reset"
  /\ dropped = 1
  /\ Len(STEPS) = 2
  /\ Len(result[1].errors) = 2

(***************************************************************************)
(* C6.  The context is shared by the steps of a run: every guard and work  *)
(* sees the context as the guard or work invoked before it left it, also   *)
(* when that one threw, and the run leaves the context as the last one     *)
(* left it; the steps x = 1, x += 1, x += 1 end with x = 3.                *)
(***************************************************************************)
Invocations == SelectSeq(trace, LAMBDA e : e.op \in {"guard", "work"})

After(e) ==
  IF e.op = "guard" THEN GuardResult(e).heap["given"]
                    ELSE WorkResult(e).heap["given"]

StepNames == [i \in 1..Len(STEPS) |-> STEPS[i].name]

C6_ContextShared ==
  (pc = "loop" \/ RunReturned) =>
     LET inv == Invocations
     IN  /\ \A k \in 1..(Len(inv) - 1) : inv[k + 1].x = After(inv[k])
         /\ Len(inv) > 0 => heap["given"] = After(inv[Len(inv)])
         /\ (RunReturned /\ StepNames = <<"A", "B", "B">>) => heap["given"] = 3

\* a run over three steps has returned in which the guard of one step and
\* the work of another changed the context and threw, and the work of a later
\* step ran
C6_Witness ==
  /\ RunReturned
  /\ \E g, i, j \in 1..Len(STEPS) :
       /\ g < j
       /\ i < j
       /\ \E k \in At("guard", g) :
            GuardResult(trace[k]).threw /\ After(trace[k]) # trace[k].x
       /\ \E k \in At("work", i) :
            WorkResult(trace[k]).threw /\ After(trace[k]) # trace[k].x
       /\ At("work", j) # {}

(***************************************************************************)
(* C7.  Lifecycle: in its turn a step gets exactly one 'started' event,    *)
(* with no error, before its guard is evaluated, and then exactly one of   *)
(* 'completed' (no error; neither guard nor work threw) and 'failed' (with *)
(* the value thrown); the Dataset of the events is the one appended.       *)
(***************************************************************************)
ThrownBy(i) ==
  IF \E k \in At("guard", i) : GuardResult(trace[k]).threw
  THEN GuardResult(trace[CHOOSE k \in At("guard", i) : TRUE]).value
  ELSE WorkResult(trace[CHOOSE k \in At("work", i) : TRUE]).value

C7_Lifecycle ==
  \A i \in Turns :
    LET started   == At("started", i)
        completed == At("completed", i)
        failed    == At("failed", i)
        called    == At("guard", i) \cup At("work", i)
    IN  /\ Cardinality(started) = 1
        /\ \A k \in started : trace[k].err = "null"
        /\ \A k \in started, l \in called : k < l
        /\ Cardinality(completed \cup failed) = 1
        /\ \A k \in completed \cup failed, l \in called : l < k
        /\ Failed(i) => \E k \in failed : trace[k].err = ThrownBy(i)
        /\ ~Failed(i) => \E k \in completed : trace[k].err = "null"
        /\ Len(SDATA) >= base + i
        /\ \A k \in started \cup completed \cup failed :
             trace[k].ds = SDATA[base + i].id

\* a run has returned in which one step completed and another failed
C7_Witness ==
  /\ RunReturned
  /\ \E i, j \in 1..Len(STEPS) : At("completed", i) # {} /\ At("failed", j) # {}

(***************************************************************************)
(* C8.  A listener that throws does not alter the run: startSteppin does   *)
(* not raise, what the listener threw is the error of no Dataset, and      *)
(* every step still has its guard evaluated once and, when the guard is    *)
(* truthy, its work invoked once.                                          *)
(***************************************************************************)
C8_ListenersDoNotAlterTheRun ==
  /\ outcome # "raised"
  /\ \A k \in 1..Len(SDATA) : SDATA[k].error # ListenerError
  /\ \A i \in Turns :
       /\ Cardinality(At("guard", i)) = 1
       /\ \A k \in At("guard", i) :
            LET g == GuardResult(trace[k])
            IN  (~g.threw /\ Truthy(g.value)) => Cardinality(At("work", i)) = 1

(***************************************************************************)
(* C9.  Steps run strictly in registration order, one after the other:     *)
(* everything the step at position i does (started, guard, work, terminal  *)
(* event, append, run-level stop, in this order) comes before anything the *)
(* step at a later position does, and data lists the Datasets of the run   *)
(* in that order.                                                          *)
(***************************************************************************)
Rank(op) ==
  CASE op = "started"   -> 1
    [] op = "guard"     -> 2
    [] op = "work"      -> 3
    [] op = "completed" -> 4
    [] op = "failed"    -> 4
    [] op = "push"      -> 5
    [] op = "ttstop"    -> 6

C9_StepsInOrder ==
  /\ \A k \in 1..(Len(trace) - 1) :
       \/ trace[k].i < trace[k + 1].i
       \/ trace[k].i = trace[k + 1].i /\ Rank(trace[k].op) < Rank(trace[k + 1].op)
  /\ \A i \in Turns :
       /\ \A op \in {"started", "guard", "push", "ttstop"} :
            Cardinality(At(op, i)) = 1
       /\ Cardinality(At("completed", i) \cup At("failed", i)) = 1
       /\ Len(SDATA) >= base + i
       /\ SDATA[base + i].step = STEPS[i]
       /\ \A k \in At("push", i) : trace[k].ds = SDATA[base + i].id
  /\ RunReturned =>
       /\ Len(result[1].data) = base + Len(STEPS)
       /\ \A i \in 1..Len(STEPS) : result[1].data[base + i].step = STEPS[i]

\* a run over three steps, with a failing one in the middle, has returned
C9_Witness ==
  /\ RunReturned
  /\ Len(STEPS) = 3
  /\ Failed(2)
  /\ At("work", 1) # {}
  /\ At("work", 3) # {}

(***************************************************************************)
(* C10.  stop(label) returns the time since the previous event (the last   *)
(* stop, or start when there is none), and the stop it appends carries the *)
(* time elapsed since start, with the label given (or none).               *)
(***************************************************************************)
LastStop == clock.stops[Len(clock.stops)]

C10_StopRecordsElapsedSinceStart ==
  clockOp = "stop" =>
     /\ Len(clock.stops) >= 1
     /\ ret = now - (IF Len(clock.stops) > 1
                     THEN clock.stops[Len(clock.stops) - 1].t
                     ELSE clock.start)
     /\ LastStop.t = now - clock.start
     /\ Truthy(labelArg) => LastStop.label = labelArg
     /\ labelArg = "undefined" => LastStop.label = "null"

(***************************************************************************)
(* C11.  findStop.                                                         *)
(***************************************************************************)
\* the positions of the stops of clock recorded with label l
Recorded(l) == {k \in 1..Len(clock.stops) : clock.stops[k].label = l}

First(S) == CHOOSE k \in S : \A j \in S : k <= j

\* the first stop of clock recorded with label l, as findStop describes it
FirstStop(l) ==
  [stop |-> clock.stops[First(Recorded(l))].t, start |-> clock.start,
   label |-> l, index |-> First(Recorded(l)) - 1]

\* C11 as written: after stop(label) with any label, findStop(label) finds a
\* stop, which carries that label, the clock's start and the zero-based
\* position of the first stop made with that label.
C11_FindStopOfAnyLabel ==
  (clockOp = "stop" /\ labelArg # "undefined") =>
     LET found == StopClock_findStop(clock, labelArg)
     IN  /\ found # <<>>
         /\ found[1].label = labelArg
         /\ found[1].start = clock.start
         /\ found[1].index <= Len(clock.stops) - 1

\* C11, amended: a truthy label passed to stop is recorded, and for every
\* truthy label with a recorded stop findStop returns the first stop recorded
\* with it, with its zero-based position and the clock's start; for every
\* other label, and for a falsy one, findStop returns nothing.
C11_FindStop ==
  /\ (clockOp = "stop" /\ Truthy(labelArg)) =>
        clock.stops[Len(clock.stops)].label = labelArg
  /\ \A l \in Labels :
        IF Truthy(l) /\ Recorded(l) # {}
        THEN StopClock_findStop(clock, l) = <<FirstStop(l)>>
        ELSE StopClock_findStop(clock, l) = <<>>

\* two stops with the same label after one with another: the first of the
\* two is found, at position 1, on a clock started at 1
C11_Witness ==
  /\ clock.start = 1
  /\ Len(clock.stops) = 3
  /\ clock.stops[1].label = "Other"
  /\ clock.stops[2].label = "Sample Label"
  /\ clock.stops[3].label = "Sample Label"
  /\ clock.stops[2].t # clock.stops[3].t
  /\ StopClock_findStop(clock, "Sample Label")[1].index = 1
  /\ StopClock_findStop(clock, "undefined") = <<>>

(***************************************************************************)
(* C12.  The results getter.                                               *)
(***************************************************************************)
\* no startSteppin has been called since construction
NeverRun == outcome = "none" /\ pc = "idle"

\* C12: a new Stepper has hasStepped false; what results returns is built
\* from the current flag and Datasets, and before any run it is stepped
\* false, no data, no errors, hasErrors false; reading it leaves the step
\* list, the Datasets, the context and hasStepped as they were; hasStepped
\* becomes true only in the step in which a run returns.
C12_ResultsIsAPureRead ==
  /\ [](calls = 0 => ~hasStepped)
  /\ [](read # <<>> =>
          /\ read[1].stepped = hasStepped
          /\ read[1].data = SDATA
          /\ NeverRun => /\ read[1].stepped = FALSE
                         /\ read[1].data = <<>>
                         /\ read[1].errors = <<>>
                         /\ read[1].hasErrors = FALSE)
  /\ [][read' # <<>> =>
          UNCHANGED <<STEPS, SDATA, OARGS, BARGS, heap, hasStepped, TTIME>>]_vars
  /\ [][(~hasStepped /\ hasStepped') =>
          (pc = "loop" /\ pc' = "idle" /\ outcome' = "returned")]_vars

\* results read after a run over two steps, one of which failed: stepped is
\* true, there are two Datasets and one error, and the run's own Result is
\* what is read
C12_Witness ==
  /\ read # <<>>
  /\ lastCall = "run"
  /\ read[1].stepped
  /\ read[1].hasErrors
  /\ Len(read[1].data) = 2
  /\ Len(read[1].errors) = 1
  /\ read = result

(***************************************************************************)
(* C13.  The step list.                                                    *)
(***************************************************************************)
\* the step in which the call named name is made
IsCall(name) == lastCall' = name /\ calls' = calls + 1

\* C13: reset() leaves the step list as it is; the list changes only by a
\* push or a splice made through the steps getter; and a run that returns
\* has taken one turn for each step of the list, in the order of the list,
\* whatever pushes, splices and resets came before it.
C13_StepListIsStable ==
  /\ [][IsCall("reset") => STEPS' = STEPS]_vars
  /\ [][STEPS' # STEPS => (IsCall("push") \/ IsCall("splice"))]_vars
  /\ [](RunReturned =>
          /\ Len(SDATA) = base + Len(STEPS)
          /\ \A i \in 1..Len(STEPS) :
                /\ SDATA[base + i].step = STEPS[i]
                /\ \E k \in At("started", i) : trace[k].step = STEPS[i].name)

\* a run, a reset that dropped its Dataset, a push, and a run over the two
\* steps now in the list
C13_Witness ==
  /\ RunReturned
  /\ runAfter = "push"
  /\ dropped = 1
  /\ base = 0
  /\ Len(STEPS) = 2
  /\ STEPS[1] # STEPS[2]
  /\ Len(SDATA) = 2

(***************************************************************************)
(* C14.  reset() and the clocks.                                           *)
(***************************************************************************)
\* C14: after a run and then reset(), no Dataset and no flag is left, and the
\* run-level clock that results.timing reports holds no stop of the run.
C14_ResetResetsTheClocks ==
  (pc = "idle" /\ lastCall = "reset" /\ outcome = "returned") =>
     /\ results.stepped = FALSE
     /\ results.data = <<>>
     /\ results.timing.stops = <<>>

(***************************************************************************)
(* C15.  The clock of a step.                                              *)
(***************************************************************************)
GuardThrew(i) == \E k \in At("guard", i) : GuardResult(trace[k]).threw

WorkThrew(i) == \E k \in At("work", i) : WorkResult(trace[k]).threw

\* the stops on the clock of the Dataset of the turn at position i
StepStops(i) == SDATA[base + i].stopclock.stops

\* C15: every turn leaves a Dataset with its own clock; the Dataset of a
\* step that did not fail holds exactly two stops, that of a step whose guard
\* threw one, and that of a step whose work threw two.
C15_StepClockStops ==
  \A i \in Turns :
    /\ Len(SDATA) >= base + i
    /\ ~Failed(i) => Len(StepStops(i)) = 2
    /\ GuardThrew(i) => Len(StepStops(i)) = 1
    /\ WorkThrew(i) => Len(StepStops(i)) = 2

\* a run over a step that completed, one whose guard threw and one whose
\* work threw
C15_Witness ==
  /\ RunReturned
  /\ Len(STEPS) = 3
  /\ ~Failed(1) /\ Len(StepStops(1)) = 2
  /\ GuardThrew(2) /\ Len(StepStops(2)) = 1
  /\ WorkThrew(3) /\ Len(StepStops(3)) = 2

(***************************************************************************)
(* C16.  The clock of a run.                                               *)
(***************************************************************************)
\* the times of the stops on the run-level clock
RunStops == [k \in 1..Len(TTIME.stops) |-> TTIME.stops[k].t]

\* the times at which the turns of the current run ended
TurnEnds ==
  LET e == SelectSeq(trace, LAMBDA x : x.op = "ttstop")
  IN  [k \in 1..Len(e) |-> e[k].at]

C17_Time ==
  /\ [](Len(clock.stops) >= 1 =>
          StopClock_time(clock) = LastStop.t - clock.start)
  /\ [](Len(clock.stops) = 0 =>
          /\ StopClock_time(clock) = now - clock.start
          /\ StopClock_time(clock) = StopClock_timeSinceStart(clock))
  /\ [](clockOp = "reset" =>
          /\ clock.stops = <<>>
          /\ StopClock_time(clock) = 0)
  /\ [][(Len(clock.stops) >= 1 /\ clock' = clock) =>
          StopClock_time(clock)' = StopClock_time(clock)]_vars

\* a clock started at 1 and stopped at 2, read when Date.now() is 0: time is
\* 1 and timeSinceStart is -1
C17_Witness ==
  /\ clockOp = "tick"
  /\ clock.start = 1
  /\ Len(clock.stops) = 1
  /\ LastStop.t = 2
  /\ now = 0
  /\ StopClock_time(clock) = 1
  /\ StopClock_timeSinceStart(clock) = -1

(***************************************************************************)
(* C18.  The receiver of the guard and of the work.                        *)
(***************************************************************************)
\* the calls of guards and work functions made in the current run
Calls == SelectSeq(trace, LAMBDA e : e.op \in {"guard", "work"})

\* C18 as written: when an owner is passed to start, every guard and every
\* work function is called on it; when none is passed, on the Step; and
\* always with the working Context values as arguments.
C18_OwnerIsReceiver ==
  \A k \in 1..Len(Calls) :
    /\ altContext # "undefined" => Calls[k].owner = altContext
    /\ altContext = "undefined" => Calls[k].owner = Calls[k].step
    /\ Calls[k].args = BARGS

\* C18, amended: when a truthy owner is passed to start, every guard and
\* every work function is called on it; when none or a falsy one is passed,
\* on the Step; the guard and the work of a step are called on the same
\* receiver, and always with the working Context values as arguments.
C18_TruthyOwnerIsReceiver ==
  /\ \A k \in 1..Len(Calls) :
        /\ Truthy(altContext) => Calls[k].owner = altContext
        /\ ~Truthy(altContext) => Calls[k].owner = Calls[k].step
        /\ Calls[k].args = BARGS
        /\ Calls[k].args = <<"given">>
  /\ \A k, l \in 1..Len(Calls) :
        Calls[k].i = Calls[l].i => Calls[k].owner = Calls[l].owner

\* a run started with an owner has returned, in which the guard and the work
\* of a step were both called on the owner; the run before it was started
\* with 0
C18_Witness ==
  /\ RunReturned
  /\ altContext = "owner"
  /\ runAfter = "run"
  /\ \E k, l \in 1..Len(Calls) :
        /\ Calls[k].i = 1 /\ Calls[k].op = "guard" /\ Calls[k].owner = "owner"
        /\ Calls[l].i = 1 /\ Calls[l].op = "work" /\ Calls[l].owner = "owner"

(***************************************************************************)
(* C19.  hasErrors and errors.                                             *)
(***************************************************************************)
\* the error fields of the Datasets, in order
ErrorFields == [k \in 1..Len(SDATA) |-> SDATA[k].error]

\* C19: in every state results.hasErrors is true exactly when
\* results.errors is not empty, results.errors is a subsequence of the error
\* fields of results.data in their order, holding no null, and it is no
\* longer than results.data.
C19_ErrorsAgree ==
  LET r == results
  IN  /\ r.hasErrors <=> (r.errors # <<>>)
      /\ r.data = SDATA
      /\ IsSubSeq(r.errors, ErrorFields)
      /\ \A k \in 1..Len(r.errors) : r.errors[k] # "null"
      /\ Len(r.errors) <= Len(r.data)

\* three Datasets: no error, an Error, and a thrown 0; one error is listed
C19_Witness ==
  /\ pc = "idle"
  /\ Len(SDATA) = 3
  /\ ErrorFields = <<"null", "Error: NO NO NO!", "0">>
  /\ results.hasErrors
  /\ results.errors = <<"Error: NO NO NO!">>

(***************************************************************************)
(* C20.  The number of Datasets.                                           *)
(***************************************************************************)
\* C20: in every state results.data holds one Dataset for every turn taken
\* since the last reset() or the construction; a run that returns has added
\* one for each step of the list, so that a second run over the same N
\* steps, with no reset in between, leaves 2 * N.
C20_OneDatasetPerTurn ==
  /\ Len(results.data) = turns
  /\ RunReturned =>
       /\ Len(results.data) = base + Len(STEPS)
       /\ runAfter \in {"new", "reset"} => base = 0
       /\ (runAfter = "run" /\ base = Len(STEPS)) =>
            Len(results.data) = 2 * Len(STEPS)

\* two runs in a row over two steps have left four Datasets
C20_Witness ==
  /\ RunReturned
  /\ runAfter = "run"
  /\ Len(STEPS) = 2
  /\ base = 2
  /\ turns = 4
  /\ Len(results.data) = 4

====
